---- MODULE Spec2Model ----
(***************************************************************************)
(* Match Scoring & Persistence job of the match-engine service             *)
(* (calculateMatches and the routes around it), the accept / reject        *)
(* routes, the venue-selection route and the matches table.                *)
(*                                                                         *)
(* Numbers.  JavaScript scores are fractions in [0,1]; here a score x is   *)
(* the integer x * Scale.  Scale is a multiple of every denominator the    *)
(* scoring formulas produce for skill sets of up to 5 elements, so all     *)
(* divisions below are exact.  A stored NUMERIC(4,3) column holds          *)
(* thousandths (Round3), a toFixed(2) detail holds hundredths (ToFixed2).  *)
(* Latitudes / longitudes are hundredths of a degree.                      *)
(***************************************************************************)
EXTENDS Integers, Sequences, FiniteSets, TLC

----------------------------------------------------------------------------
(* Bounds of the model *)

NumUsers == 2
MaxRuns == 2
MaxReqs == 2
MaxProfileChanges == 1
MaxClock == 1
MaxWriteFailures == 1

----------------------------------------------------------------------------
(* Units and SQL / JavaScript value helpers *)

Scale == 120 * 1000

NULL == "NULL"
NoNum == 0 - 99999
\* a NULL JSONB array column (distinct from the empty array)
NullArr == <<NULL>>

Users == 1..NumUsers
Runs == 1..MaxRuns
Reqs == 1..MaxReqs

Min2(a, b) == IF a <= b THEN a ELSE b
Max2(a, b) == IF a >= b THEN a ELSE b
Abs(a) == IF a < 0 THEN 0 - a ELSE a

Range(s) == {s[i] : i \in 1..Len(s)}

\* JavaScript truthiness of a nullable string / number column
TruthyStr(s) == s # NULL /\ s # ""
TruthyNum(n) == n # NoNum /\ n # 0

\* NUMERIC(4,3): the value is rounded to three decimals when stored
Round3(x) == (x * 1000 + (Scale \div 2)) \div Scale

\* Number.prototype.toFixed(2)
ToFixed2(x) == (x * 100 + (Scale \div 2)) \div Scale

----------------------------------------------------------------------------
(* Rows of users LEFT JOIN user_profiles / ideal_personas / linkedin_data  *)

MatchStatusEnum == {"PENDING", "ACCEPTED", "REJECTED", "SCHEDULED", "COMPLETED", "CANCELLED"}

\* a user whose user_profiles and ideal_personas rows are absent: every
\* joined column is NULL
AbsentRow ==
    [hasProfile |-> FALSE, hasPersona |-> FALSE,
     city |-> NULL, state |-> NULL, latitude |-> NoNum, longitude |-> NoNum,
     profession |-> NULL, skills |-> NullArr,
     match_type |-> NULL, skills_desired |-> NullArr, industry_preferences |-> NullArr,
     experience_level_preference |-> NULL, linkedin_industry |-> NULL]

\* the rows the create_user_related_records trigger inserts for a new user
TriggerRow ==
    [AbsentRow EXCEPT !.hasProfile = TRUE, !.hasPersona = TRUE,
                      !.skills = <<>>, !.match_type = "COMPLEMENT",
                      !.skills_desired = <<>>, !.industry_preferences = <<>>,
                      !.experience_level_preference = "ANY"]

\* a profile without a persona row, and a persona without a profile row
ProfileOnlyRow ==
    [AbsentRow EXCEPT !.hasProfile = TRUE, !.city = "SF", !.state = "CA",
                      !.latitude = 3777, !.longitude = -12200,
                      !.profession = "engineer", !.skills = <<"ts", "sql">>,
                      !.linkedin_industry = "tech"]

PersonaOnlyRow ==
    [AbsentRow EXCEPT !.hasPersona = TRUE, !.match_type = "COMPLEMENT",
                      !.skills_desired = <<"ts", "sql">>,
                      !.industry_preferences = <<"tech">>,
                      !.experience_level_preference = "ANY"]

MirrorRow ==
    [hasProfile |-> TRUE, hasPersona |-> TRUE,
     city |-> "SF", state |-> "CA", latitude |-> 3777, longitude |-> -12200,
     profession |-> "engineer", skills |-> <<"ts", "sql", "ts">>,
     match_type |-> "MIRROR", skills_desired |-> <<"ts">>,
     industry_preferences |-> <<"tech">>,
     experience_level_preference |-> "ANY", linkedin_industry |-> "tech"]

ComplementRow ==
    [hasProfile |-> TRUE, hasPersona |-> TRUE,
     city |-> "Seattle", state |-> "WA", latitude |-> 4761, longitude |-> -12200,
     profession |-> "designer", skills |-> <<"figma">>,
     match_type |-> "COMPLEMENT", skills_desired |-> <<"ts", "sql">>,
     industry_preferences |-> <<"finance">>,
     experience_level_preference |-> "SENIOR", linkedin_industry |-> "media"]

Catalogue == {AbsentRow, TriggerRow, ProfileOnlyRow, PersonaOnlyRow, MirrorRow, ComplementRow}

\* rows for the scoring of one pair: a subject row varies what the scorer
\* reads of the subject, a candidate row what it reads of the candidate
Locations ==
    {[city |-> "SF", state |-> "CA", latitude |-> 3777, longitude |-> 0 - 12200],
     [city |-> "Oakland", state |-> "CA", latitude |-> 3780, longitude |-> 0 - 12200],
     [city |-> NULL, state |-> NULL, latitude |-> 3784, longitude |-> 0 - 12200],
     [city |-> NULL, state |-> NULL, latitude |-> 3812, longitude |-> 0 - 12200],
     [city |-> NULL, state |-> NULL, latitude |-> 0, longitude |-> 0 - 12200],
     [city |-> NULL, state |-> NULL, latitude |-> NoNum, longitude |-> NoNum]}

SubjectRows ==
    {[MirrorRow EXCEPT !.skills = sk, !.skills_desired = sd,
                       !.city = loc.city, !.state = loc.state,
                       !.latitude = loc.latitude, !.longitude = loc.longitude,
                       !.match_type = mt, !.experience_level_preference = ex] :
        sk \in {<<>>, <<"ts", "sql", "ts">>, <<"figma", "go", "sql">>},
        sd \in {<<>>, <<"ts", "go">>},
        loc \in Locations,
        mt \in {"MIRROR", "COMPLEMENT", NULL},
        ex \in {"ANY", "SENIOR"}}

CandidateRows ==
    {[MirrorRow EXCEPT !.skills = sk,
                       !.city = loc.city, !.state = loc.state,
                       !.latitude = loc.latitude, !.longitude = loc.longitude,
                       !.profession = pr, !.linkedin_industry = li,
                       !.experience_level_preference = ex] :
        sk \in {<<>>, <<"ts", "sql">>, <<"ts", "go", "sql", "rust">>},
        loc \in Locations,
        pr \in {"engineer", "designer"},
        li \in {"tech", NULL},
        ex \in {"SENIOR", "MID_LEVEL"}}

\* rows around the two scenarios: a subject with five skills, a candidate
\* who shares three of them or none
Skills5 == <<"go", "js", "py", "sql", "ts">>
Shared3 == <<"go", "js", "py", "css", "php">>
Disjoint5 == <<"c", "r", "rb", "sh", "tex">>
ManyDesired == <<"ada", "apl", "awk", "bas", "cob", "elm">>

Places ==
    {[city |-> "SF", state |-> "CA"],
     [city |-> "SF", state |-> NULL],
     [city |-> "Seattle", state |-> "WA"]}

Coordinates ==
    {[latitude |-> NoNum, longitude |-> NoNum],
     [latitude |-> 3777, longitude |-> 0 - 12200]}

ScenarioSubjects ==
    {[MirrorRow EXCEPT !.skills = Skills5, !.skills_desired = sd,
                       !.city = pl.city, !.state = pl.state,
                       !.latitude = co.latitude, !.longitude = co.longitude,
                       !.match_type = mt, !.experience_level_preference = ex,
                       !.industry_preferences = ip] :
        sd \in {<<>>, <<"css", "php">>, ManyDesired},
        pl \in {[city |-> "SF", state |-> "CA"], [city |-> "SF", state |-> NULL]},
        co \in Coordinates,
        mt \in {"MIRROR", "COMPLEMENT"},
        ex \in {"ANY", "SENIOR", "MID_LEVEL"},
        ip \in {<<"tech">>, <<"finance">>}}

ScenarioCandidates ==
    {[MirrorRow EXCEPT !.skills = sk,
                       !.city = pl.city, !.state = pl.state,
                       !.latitude = co.latitude, !.longitude = co.longitude,
                       !.profession = pr,
                       !.experience_level_preference = ex] :
        sk \in {Shared3, Disjoint5},
        pl \in Places,
        co \in Coordinates,
        pr \in {"engineer", "designer"},
        ex \in {"SENIOR", "EXECUTIVE"}}

\* rows around the location, industry and experience rules: places on one
\* meridian at 0.8, 2.2, 4.4, 8.9 and 11.1 km steps north of the first, two
\* near the equator, and one without coordinates
FitLocations ==
    {[city |-> "SF", state |-> "CA", latitude |-> 3777, longitude |-> 0 - 12200],
     [city |-> "SF", state |-> NULL, latitude |-> 3777, longitude |-> 0 - 12200],
     [city |-> "Oakland", state |-> "CA", latitude |-> 3780, longitude |-> 0 - 12200],
     [city |-> "Reno", state |-> "NV", latitude |-> 3784, longitude |-> 0 - 12200],
     [city |-> NULL, state |-> NULL, latitude |-> 3777, longitude |-> 0 - 12200],
     [city |-> NULL, state |-> NULL, latitude |-> 3784, longitude |-> 0 - 12200],
     [city |-> NULL, state |-> NULL, latitude |-> 3797, longitude |-> 0 - 12200],
     [city |-> NULL, state |-> NULL, latitude |-> 3817, longitude |-> 0 - 12200],
     [city |-> NULL, state |-> NULL, latitude |-> 3857, longitude |-> 0 - 12200],
     [city |-> NULL, state |-> NULL, latitude |-> 3877, longitude |-> 0 - 12200],
     [city |-> NULL, state |-> NULL, latitude |-> 0, longitude |-> 0 - 12200],
     [city |-> NULL, state |-> NULL, latitude |-> 5, longitude |-> 0 - 12200],
     [city |-> NULL, state |-> NULL, latitude |-> NoNum, longitude |-> NoNum]}

FitSubjects ==
    {[MirrorRow EXCEPT !.city = loc.city, !.state = loc.state,
                       !.latitude = loc.latitude, !.longitude = loc.longitude,
                       !.industry_preferences = ip,
                       !.experience_level_preference = ex] :
        loc \in FitLocations,
        ip \in {<<>>, <<"tech">>, <<"finance", "tech">>},
        ex \in {"ANY", "SENIOR"}}

FitCandidates ==
    {[MirrorRow EXCEPT !.city = loc.city, !.state = loc.state,
                       !.latitude = loc.latitude, !.longitude = loc.longitude,
                       !.linkedin_industry = li,
                       !.experience_level_preference = ex] :
        loc \in FitLocations,
        li \in {"tech", "media", NULL},
        ex \in {"SENIOR", "MID_LEVEL"}}

\* the populations the interleaving specification starts from, and the
\* rows a profile update writes
InitRows == {MirrorRow, PersonaOnlyRow}
ChangeRows == {ComplementRow, MirrorRow}

\* row.<jsonb array> || []
OrEmpty(a) == IF a = NullArr THEN <<>> ELSE a

\* One element of result.rows.map(...): profile, persona and social are
\* object literals, so they are defined whatever the joined columns hold.
UserSnapshot(id, row) ==
    [userId |-> id,
     profile |-> [defined |-> TRUE,
                  city |-> row.city, state |-> row.state,
                  latitude |-> row.latitude, longitude |-> row.longitude,
                  profession |-> row.profession,
                  skills |-> OrEmpty(row.skills)],
     persona |-> [defined |-> TRUE,
                  matchType |-> row.match_type,
                  skillsDesired |-> OrEmpty(row.skills_desired),
                  industryPreferences |-> OrEmpty(row.industry_preferences),
                  experienceLevelPreference |-> row.experience_level_preference],
     social |-> [linkedinIndustry |-> row.linkedin_industry]]

\* SELECT ... FROM users u LEFT JOIN ... : one row per user (user_id is
\* UNIQUE in every joined table), in the order the database returns them
fetchUserDataForMatching(table, order) ==
    [i \in 1..Len(order) |-> UserSnapshot(order[i], table[order[i]])]

----------------------------------------------------------------------------
(* Scoring of one (user, candidate) pair: body of the inner loop *)

\* getEnvNumber: parseInt(value, 10) of the configured text, the default
\* when the variable is unset or empty.  A configured value is given in
\* thousandths ("0.75" is 750); parseInt keeps its integer part.  Of a
\* text that does not start with a digit (".75") parseInt makes NaN, and
\* getEnvNumber throws.
EnvUnset == 0 - 1
EnvNaN == 0 - 2
Thrown == 0 - 3
getEnvNumber(value, defaultValue) ==
    IF value = EnvUnset THEN defaultValue
    ELSE IF value = EnvNaN THEN Thrown
    ELSE (value \div 1000) * Scale

DefaultThreshold == Scale \div 2

\* calculateDistance (haversine, km) in metres.  For two points on one
\* meridian the haversine distance is EARTH_RADIUS_KM * dLat (radians),
\* 111195 m per degree (pi taken as 355/113); the model's points all lie
\* on one meridian.
EARTH_RADIUS_KM == 6371
calculateDistance(lat1, lon1, lat2, lon2) ==
    (((Abs(lat2 - lat1) * EARTH_RADIUS_KM * 10) \div 180) * 355) \div 113

Clamp01(x) == Min2(Scale, Max2(0, x))

userSkills(user) == Range(user.profile.skills)
candidateSkills(candidate) == Range(candidate.profile.skills)
desiredSkills(user) == Range(user.persona.skillsDesired)

commonSkillsWithCandidate(user, candidate) ==
    Cardinality(userSkills(user) \cap candidateSkills(candidate))
candidateSkillsMatchingDesired(user, candidate) ==
    Cardinality(candidateSkills(candidate) \cap desiredSkills(user))
\* faulty variant: the sizes of the arrays, duplicates counted
maxPossibleSkillsOfArrays(user, candidate) ==
    Max2(Len(user.profile.skills),
         Max2(Len(candidate.profile.skills), Len(user.persona.skillsDesired)))

maxPossibleSkills(user, candidate) ==
    Max2(Cardinality(userSkills(user)),
         Max2(Cardinality(candidateSkills(candidate)), Cardinality(desiredSkills(user))))

\* 1. Skills overlap
RawSkillsAlignment(user, candidate) ==
    IF maxPossibleSkills(user, candidate) > 0
    THEN ((commonSkillsWithCandidate(user, candidate)
           + candidateSkillsMatchingDesired(user, candidate)) * Scale)
         \div (2 * maxPossibleSkills(user, candidate))
    ELSE 0

\* 2. Industry similarity
\* faulty variant: without the baseline of 0.2
RawIndustryAlignmentNoBaseline(user, candidate) ==
    IF TruthyStr(candidate.social.linkedinIndustry)
       /\ candidate.social.linkedinIndustry \in Range(user.persona.industryPreferences)
    THEN Scale
    ELSE 0

RawIndustryAlignment(user, candidate) ==
    IF TruthyStr(candidate.social.linkedinIndustry)
       /\ candidate.social.linkedinIndustry \in Range(user.persona.industryPreferences)
    THEN Scale
    ELSE Scale \div 5

\* 3. Location proximity, already normalised by Math.min(1, ...)
DistanceBonus(distance) ==
    IF distance <= 10 * 1000 THEN (Scale * 8) \div 10
    ELSE IF distance <= 25 * 1000 THEN (Scale * 6) \div 10
    ELSE IF distance <= 50 * 1000 THEN (Scale * 4) \div 10
    ELSE IF distance <= 100 * 1000 THEN (Scale * 2) \div 10
    ELSE 0

SameStr(a, b) == TruthyStr(a) /\ TruthyStr(b) /\ a = b

\* faulty variant: the boost for the same state is missing
RawProfessionalFitCityOnly(user, candidate) ==
    Min2(Scale,
        IF SameStr(user.profile.city, candidate.profile.city)
        THEN Scale \div 2
        ELSE IF SameStr(user.profile.state, candidate.profile.state)
        THEN (Scale * 3) \div 10
        ELSE IF TruthyNum(user.profile.latitude) /\ TruthyNum(user.profile.longitude)
                /\ TruthyNum(candidate.profile.latitude)
                /\ TruthyNum(candidate.profile.longitude)
        THEN DistanceBonus(calculateDistance(user.profile.latitude, user.profile.longitude,
                                             candidate.profile.latitude,
                                             candidate.profile.longitude))
        ELSE 0)

RawProfessionalFit(user, candidate) ==
    Min2(Scale,
        IF SameStr(user.profile.city, candidate.profile.city)
        THEN (Scale \div 2)
             + (IF SameStr(user.profile.state, candidate.profile.state)
                THEN Scale \div 2 ELSE 0)
        ELSE IF SameStr(user.profile.state, candidate.profile.state)
        THEN (Scale * 3) \div 10
        ELSE IF TruthyNum(user.profile.latitude) /\ TruthyNum(user.profile.longitude)
                /\ TruthyNum(candidate.profile.latitude)
                /\ TruthyNum(candidate.profile.longitude)
        THEN DistanceBonus(calculateDistance(user.profile.latitude, user.profile.longitude,
                                             candidate.profile.latitude,
                                             candidate.profile.longitude))
        ELSE 0)

\* 4. Complement vs. mirror
\* faulty variant: the branch is chosen by the candidate's matchType
RawPersonalFitOfCandidate(user, candidate) ==
    LET common == commonSkillsWithCandidate(user, candidate)
        size == Max2(Cardinality(userSkills(user)), 1)
        differentProfession ==
            IF user.profile.profession # candidate.profile.profession THEN 1 ELSE 0
        sameProfession ==
            IF user.profile.profession = candidate.profile.profession THEN 1 ELSE 0
    IN  IF candidate.persona.matchType = "COMPLEMENT"
        THEN ((size - common) * Scale * 7) \div (size * 10)
             + (differentProfession * Scale * 3) \div 10
        ELSE IF candidate.persona.matchType = "MIRROR"
        THEN (common * Scale * 7) \div (size * 10)
             + (sameProfession * Scale * 3) \div 10
        ELSE Scale \div 2

RawPersonalFit(user, candidate) ==
    LET common == commonSkillsWithCandidate(user, candidate)
        size == Max2(Cardinality(userSkills(user)), 1)
        differentProfession ==
            IF user.profile.profession # candidate.profile.profession THEN 1 ELSE 0
        sameProfession ==
            IF user.profile.profession = candidate.profile.profession THEN 1 ELSE 0
    IN  IF user.persona.matchType = "COMPLEMENT"
        THEN ((size - common) * Scale * 7) \div (size * 10)
             + (differentProfession * Scale * 3) \div 10
        ELSE IF user.persona.matchType = "MIRROR"
        THEN (common * Scale * 7) \div (size * 10)
             + (sameProfession * Scale * 3) \div 10
        ELSE Scale \div 2

\* faulty variant: a mismatch scores 0, so that the multiplier is 0.8
RawExperienceCompatibilityZero(user, candidate) ==
    IF user.persona.experienceLevelPreference = "ANY"
       \/ user.persona.experienceLevelPreference
            = candidate.persona.experienceLevelPreference
    THEN Scale
    ELSE 0

\* 5. Experience compatibility
RawExperienceCompatibility(user, candidate) ==
    IF user.persona.experienceLevelPreference = "ANY"
       \/ user.persona.experienceLevelPreference
            = candidate.persona.experienceLevelPreference
    THEN Scale
    ELSE Scale \div 2

\* weighted sum, then the experience multiplier 0.8 + 0.2 * experience
RawOverall(user, candidate) ==
    LET weighted == (RawSkillsAlignment(user, candidate) * 5
                     + RawIndustryAlignment(user, candidate) * 2
                     + RawProfessionalFit(user, candidate) * 1
                     + RawPersonalFit(user, candidate) * 2) \div 10
        multiplier100 == (8 * Scale + 2 * RawExperienceCompatibility(user, candidate))
                         \div (Scale \div 10)
    IN  (weighted * multiplier100) \div 100

\* faulty variant: the skills ratio is taken over maxPossibleSkills instead of
\* twice that, and the block "Ensure scores are between 0 and 1" is missing
ScorePairUnclamped(user, candidate) ==
    LET scoreSkillsAlignment == 2 * RawSkillsAlignment(user, candidate)
        scoreOverall == RawOverall(user, candidate)
                        + (RawSkillsAlignment(user, candidate) \div 2)
        scoreProfessionalFit == RawProfessionalFit(user, candidate)
        scorePersonalFit == RawPersonalFit(user, candidate)
        scoreIndustryAlignment == RawIndustryAlignment(user, candidate)
        scoreExperienceCompatibility == RawExperienceCompatibility(user, candidate)
    IN  [userId |-> user.userId,
         matchedUserId |-> candidate.userId,
         scoreOverall |-> scoreOverall,
         scoreProfessionalFit |-> scoreProfessionalFit,
         scorePersonalFit |-> scorePersonalFit,
         scoreSkillsAlignment |-> scoreSkillsAlignment,
         scoreIndustryAlignment |-> scoreIndustryAlignment,
         scoreExperienceCompatibility |-> scoreExperienceCompatibility,
         scoreDetails |-> [skillsOverlap |-> ToFixed2(scoreSkillsAlignment),
                           industryMatch |-> ToFixed2(scoreIndustryAlignment),
                           locationMatch |-> ToFixed2(scoreProfessionalFit),
                           personaMatch |-> ToFixed2(scorePersonalFit)]]

\* the six scores after "Ensure scores are between 0 and 1", and the
\* object pushed on matchesToInsert
ScorePair(user, candidate) ==
    LET scoreOverall == Clamp01(RawOverall(user, candidate))
        scoreProfessionalFit == Clamp01(RawProfessionalFit(user, candidate))
        scorePersonalFit == Clamp01(RawPersonalFit(user, candidate))
        scoreSkillsAlignment == Clamp01(RawSkillsAlignment(user, candidate))
        scoreIndustryAlignment == Clamp01(RawIndustryAlignment(user, candidate))
        scoreExperienceCompatibility == Clamp01(RawExperienceCompatibility(user, candidate))
    IN  [userId |-> user.userId,
         matchedUserId |-> candidate.userId,
         scoreOverall |-> scoreOverall,
         scoreProfessionalFit |-> scoreProfessionalFit,
         scorePersonalFit |-> scorePersonalFit,
         scoreSkillsAlignment |-> scoreSkillsAlignment,
         scoreIndustryAlignment |-> scoreIndustryAlignment,
         scoreExperienceCompatibility |-> scoreExperienceCompatibility,
         scoreDetails |-> [skillsOverlap |-> ToFixed2(scoreSkillsAlignment),
                           industryMatch |-> ToFixed2(scoreIndustryAlignment),
                           locationMatch |-> ToFixed2(scoreProfessionalFit),
                           personaMatch |-> ToFixed2(scorePersonalFit)]]

----------------------------------------------------------------------------
(* MatchSetBuilder: the two nested loops of calculateMatches *)

NoTarget == 0

\* usersToProcess: the target's snapshots, or everybody
\* faulty variant: the filter on the target is missing
usersToProcessEverybody(allUsersData, targetUserId) ==
    allUsersData

usersToProcess(allUsersData, targetUserId) ==
    IF targetUserId # NoTarget
    THEN SelectSeq(allUsersData, LAMBDA u : u.userId = targetUserId)
    ELSE allUsersData

\* the guards of the two loops
SkipUser(user) == ~user.persona.defined \/ ~user.profile.defined
\* faulty variant: a pair is scored in one direction only
SkipCandidateDedup(user, candidate) ==
    user.userId >= candidate.userId \/ ~candidate.persona.defined \/ ~candidate.profile.defined

\* faulty variant: the candidate guard without the self test
SkipCandidateNoSelfTest(user, candidate) ==
    ~candidate.persona.defined \/ ~candidate.profile.defined

SkipCandidate(user, candidate) ==
    user.userId = candidate.userId \/ ~candidate.persona.defined \/ ~candidate.profile.defined

MATCH_THRESHOLD(env) == getEnvNumber(env, DefaultThreshold)

\* matches pushed while the inner loop runs over candidates k..Len
RECURSIVE InnerLoop(_, _, _, _)
InnerLoop(user, allUsersData, k, env) ==
    IF k > Len(allUsersData) THEN <<>>
    ELSE LET candidate == allUsersData[k]
             rest == InnerLoop(user, allUsersData, k + 1, env)
         IN  IF SkipCandidate(user, candidate) THEN rest
             ELSE IF ScorePair(user, candidate).scoreOverall >= MATCH_THRESHOLD(env)
                  THEN <<ScorePair(user, candidate)>> \o rest
                  ELSE rest

RECURSIVE OuterLoop(_, _, _, _)
OuterLoop(toProcess, allUsersData, i, env) ==
    IF i > Len(toProcess) THEN <<>>
    ELSE LET user == toProcess[i]
             rest == OuterLoop(toProcess, allUsersData, i + 1, env)
         IN  IF SkipUser(user) THEN rest
             ELSE InnerLoop(user, allUsersData, 1, env) \o rest

\* matchesToInsert when the loops are over
BuildMatches(allUsersData, targetUserId, env) ==
    OuterLoop(usersToProcess(allUsersData, targetUserId), allUsersData, 1, env)

\* the loops reach the body of the inner loop for at least one pair
PairsReached(allUsersData, targetUserId) ==
    \E i \in 1..Len(allUsersData), k \in 1..Len(allUsersData) :
        /\ targetUserId # NoTarget => allUsersData[i].userId = targetUserId
        /\ ~SkipUser(allUsersData[i])
        /\ ~SkipCandidate(allUsersData[i], allUsersData[k])

\* the body of the inner loop throws: getEnvNumber is called in it, for
\* every pair, and no try / catch encloses the body or the loops
ScoringThrows(allUsersData, targetUserId, env) ==
    MATCH_THRESHOLD(env) = Thrown /\ PairsReached(allUsersData, targetUserId)

\* the <<subject, candidate>> pairs for which the body of the inner loop is
\* entered, in the order of the loops, candidates k..Len of one subject
RECURSIVE EvaluatedInner(_, _, _)
EvaluatedInner(user, allUsersData, k) ==
    IF k > Len(allUsersData) THEN <<>>
    ELSE LET candidate == allUsersData[k]
             rest == EvaluatedInner(user, allUsersData, k + 1)
         IN  IF SkipCandidate(user, candidate) THEN rest
             ELSE <<<<user.userId, candidate.userId>>>> \o rest

RECURSIVE EvaluatedOuter(_, _, _)
EvaluatedOuter(toProcess, allUsersData, i) ==
    IF i > Len(toProcess) THEN <<>>
    ELSE LET user == toProcess[i]
             rest == EvaluatedOuter(toProcess, allUsersData, i + 1)
         IN  IF SkipUser(user) THEN rest
             ELSE EvaluatedInner(user, allUsersData, 1) \o rest

\* the pairs a call evaluates: all that the loops reach, or the first one
\* only when the body throws
EvaluatedPairs(allUsersData, targetUserId, env) ==
    LET reached == EvaluatedOuter(usersToProcess(allUsersData, targetUserId),
                                  allUsersData, 1)
    IN  IF ScoringThrows(allUsersData, targetUserId, env)
        THEN SubSeq(reached, 1, 1)
        ELSE reached

----------------------------------------------------------------------------
(* MatchStore: the matches table and the upsert statement *)

NoTime == 0 - 1

\* faulty variant: the conflict target names the columns in the wrong order
RowIndexReversed(tbl, userId, matchedUserId) ==
    {i \in 1..Len(tbl) : tbl[i].user_id = matchedUserId /\ tbl[i].matched_user_id = userId}

RowIndex(tbl, userId, matchedUserId) ==
    {i \in 1..Len(tbl) : tbl[i].user_id = userId /\ tbl[i].matched_user_id = matchedUserId}

PreservedStatuses == {"ACCEPTED", "REJECTED", "SCHEDULED", "COMPLETED", "CANCELLED"}

\* faulty variants of the CASE expression: status = EXCLUDED.status, and a
\* list of preserved statuses that forgets CANCELLED
ConflictStatusExcluded(old) == "PENDING"
ConflictStatusShortList(old) ==
    IF old \in {"ACCEPTED", "REJECTED", "SCHEDULED", "COMPLETED"} THEN old ELSE "PENDING"

\* status = CASE WHEN matches.status IN (...) THEN matches.status ELSE 'PENDING' END
ConflictStatus(old) == IF old \in PreservedStatuses THEN old ELSE "PENDING"

\* the VALUES (...) row of the INSERT
InsertedRow(match, matchId, now) ==
    [id |-> matchId,
     user_id |-> match.userId,
     matched_user_id |-> match.matchedUserId,
     status |-> "PENDING",
     score_overall |-> Round3(match.scoreOverall),
     score_professional_fit |-> Round3(match.scoreProfessionalFit),
     score_personal_fit |-> Round3(match.scorePersonalFit),
     score_skills_alignment |-> Round3(match.scoreSkillsAlignment),
     score_industry_alignment |-> Round3(match.scoreIndustryAlignment),
     score_experience_compatibility |-> Round3(match.scoreExperienceCompatibility),
     score_details |-> match.scoreDetails,
     scheduled_time |-> NoTime,
     user_feedback |-> NoNum,
     matched_user_feedback |-> NoNum,
     created_at |-> now,
     updated_at |-> now]

\* faulty variant: the conflicting row is replaced by the row of the VALUES
\* list (a delete-and-insert), its status kept as the statement keeps it
UpdatedRowReplaced(old, match, now) ==
    [InsertedRow(match, old.id, now) EXCEPT !.status = ConflictStatus(old.status)]

\* the DO UPDATE SET ... of the conflicting row
UpdatedRow(old, match, now) ==
    [old EXCEPT !.status = ConflictStatus(old.status),
                !.score_overall = Round3(match.scoreOverall),
                !.score_professional_fit = Round3(match.scoreProfessionalFit),
                !.score_personal_fit = Round3(match.scorePersonalFit),
                !.score_skills_alignment = Round3(match.scoreSkillsAlignment),
                !.score_industry_alignment = Round3(match.scoreIndustryAlignment),
                !.score_experience_compatibility = Round3(match.scoreExperienceCompatibility),
                !.score_details = match.scoreDetails,
                !.updated_at = now]

\* faulty variant: a plain INSERT without the ON CONFLICT clause
UpsertInsertOnly(tbl, match, matchId, now) ==
    Append(tbl, InsertedRow(match, matchId, now))

\* INSERT ... ON CONFLICT (user_id, matched_user_id) DO UPDATE: one atomic statement
\* faulty variant: the conflicting row also takes the id of the statement
UpsertFreshId(tbl, match, matchId, now) ==
    IF RowIndex(tbl, match.userId, match.matchedUserId) # {}
    THEN [i \in 1..Len(tbl) |->
            IF i \in RowIndex(tbl, match.userId, match.matchedUserId)
            THEN [UpdatedRow(tbl[i], match, now) EXCEPT !.id = matchId]
            ELSE tbl[i]]
    ELSE Append(tbl, InsertedRow(match, matchId, now))

Upsert(tbl, match, matchId, now) ==
    IF RowIndex(tbl, match.userId, match.matchedUserId) # {}
    THEN [i \in 1..Len(tbl) |->
            IF i \in RowIndex(tbl, match.userId, match.matchedUserId)
            THEN UpdatedRow(tbl[i], match, now)
            ELSE tbl[i]]
    ELSE Append(tbl, InsertedRow(match, matchId, now))

\* the constraints of CREATE TABLE matches; the first one a table breaks
\* names the error of the statement that produced it
InRange01(x) == 0 <= x /\ x <= 1000

ConstraintError(tbl) ==
    IF \E i, k \in 1..Len(tbl) : i # k /\ tbl[i].id = tbl[k].id
    THEN "primary_key"
    ELSE IF \E i, k \in 1..Len(tbl) :
              /\ i # k
              /\ tbl[i].user_id = tbl[k].user_id
              /\ tbl[i].matched_user_id = tbl[k].matched_user_id
    THEN "unique_violation"
    ELSE IF \E i \in 1..Len(tbl) : tbl[i].user_id = tbl[i].matched_user_id
    THEN "different_users"
    ELSE IF \E i \in 1..Len(tbl) :
              ~ /\ InRange01(tbl[i].score_overall)
                /\ InRange01(tbl[i].score_professional_fit)
                /\ InRange01(tbl[i].score_personal_fit)
                /\ InRange01(tbl[i].score_skills_alignment)
                /\ InRange01(tbl[i].score_industry_alignment)
                /\ InRange01(tbl[i].score_experience_compatibility)
    THEN "score_check"
    ELSE "none"

\* uuidv4(): an identifier no row carries
uuidv4(tbl) == Len(tbl) + 1

\* UPDATE matches SET status = $1, updated_at = NOW() WHERE id = $2
\* faulty variant: ... WHERE id = $2 AND status = 'PENDING'
UpdateStatusPendingOnly(tbl, matchId, status, now) ==
    [i \in 1..Len(tbl) |->
        IF tbl[i].id = matchId /\ tbl[i].status = "PENDING"
        THEN [tbl[i] EXCEPT !.status = status, !.updated_at = now]
        ELSE tbl[i]]

UpdateStatus(tbl, matchId, status, now) ==
    [i \in 1..Len(tbl) |->
        IF tbl[i].id = matchId
        THEN [tbl[i] EXCEPT !.status = status, !.updated_at = now]
        ELSE tbl[i]]

\* UPDATE matches SET status = 'SCHEDULED', scheduled_time = $3, updated_at = NOW() WHERE id = $4
UpdateScheduled(tbl, matchId, scheduledTime, now) ==
    [i \in 1..Len(tbl) |->
        IF tbl[i].id = matchId
        THEN [tbl[i] EXCEPT !.status = "SCHEDULED", !.scheduled_time = scheduledTime,
                            !.updated_at = now]
        ELSE tbl[i]]

----------------------------------------------------------------------------
(* State *)

VARIABLES
    env,            \* MATCH_SCORING_THRESHOLD of the match-engine process
    userRows,       \* users joined with their profile / persona / linkedin rows
    matches,        \* the matches table, in insertion order
    run,            \* the calls of calculateMatches
    req,            \* the accept / reject / select requests
    clock,          \* NOW()
    profileChanges, \* number of profile / persona updates so far
    writeFailures   \* number of upserts the database has rejected so far

vars == <<env, userRows, matches, run, req, clock, profileChanges, writeFailures>>

ThresholdEnvs == {EnvUnset, 750, EnvNaN}

Orders == {o \in [1..NumUsers -> Users] : \A a, b \in 1..NumUsers : o[a] = o[b] => a = b}

\* pc, targetUserId, matchesToInsert, written (upserts completed) and
\* result (the returned count) are the call's position and locals; the
\* rest records what happened: version is the number of profile updates
\* that preceded the fetch, failed the index of the upsert that threw,
\* error the reason, replaced the status the row of the latest upsert
\* held before it ("NONE" when the row was inserted)
IdleRun ==
    [pc |-> "idle", targetUserId |-> NoTarget, version |-> 0,
     matchesToInsert |-> <<>>, written |-> 0, failed |-> {}, result |-> 0 - 1,
     error |-> "none", replaced |-> "", fetched |-> FALSE]

IdleReq == [pc |-> "idle", kind |-> "none", matchId |-> 0]

Init ==
    /\ env \in ThresholdEnvs
    /\ userRows \in [Users -> InitRows]
    /\ matches = <<>>
    /\ run = [j \in Runs |-> IdleRun]
    /\ req = [h \in Reqs |-> IdleReq]
    /\ clock = 0
    /\ profileChanges = 0
    /\ writeFailures = 0

----------------------------------------------------------------------------
(* calculateMatches *)

\* faulty variant: before it writes, the run deletes the rows of the users
\* it processed whose pair it did not keep
StartRunPruning(j, targetUserId, order) ==
    /\ run[j].pc = "idle"
    /\ LET allUsersData == fetchUserDataForMatching(userRows, order)
           thrown == ScoringThrows(allUsersData, targetUserId, env)
           matchesToInsert == IF thrown THEN <<>>
                              ELSE BuildMatches(allUsersData, targetUserId, env)
           kept(r) == \/ targetUserId # NoTarget /\ r.user_id # targetUserId
                      \/ \E k \in 1..Len(matchesToInsert) :
                            /\ matchesToInsert[k].userId = r.user_id
                            /\ matchesToInsert[k].matchedUserId = r.matched_user_id
       IN  /\ run' = [run EXCEPT ![j] =
                        [pc |-> IF thrown THEN "failed"
                                ELSE IF matchesToInsert = <<>> THEN "done" ELSE "writing",
                         targetUserId |-> targetUserId,
                         version |-> profileChanges,
                         matchesToInsert |-> matchesToInsert,
                         written |-> 0,
                         failed |-> {},
                         result |-> IF ~thrown /\ matchesToInsert = <<>> THEN 0 ELSE 0 - 1,
                         error |-> IF thrown THEN "scoring" ELSE "none",
                         replaced |-> "",
                         fetched |-> TRUE]]
           /\ matches' = IF thrown THEN matches ELSE SelectSeq(matches, kept)
    /\ UNCHANGED <<env, userRows, req, clock, profileChanges, writeFailures>>

\* from the call to the first upsert: the population is fetched with one
\* query and every pair is scored in memory before anything is written; an
\* exception thrown while a pair is scored leaves calculateMatches
StartRun(j, targetUserId, order) ==
    /\ run[j].pc = "idle"
    /\ LET allUsersData == fetchUserDataForMatching(userRows, order)
           thrown == ScoringThrows(allUsersData, targetUserId, env)
           matchesToInsert == IF thrown THEN <<>>
                              ELSE BuildMatches(allUsersData, targetUserId, env)
       IN  run' = [run EXCEPT ![j] =
                     [pc |-> IF thrown THEN "failed"
                             ELSE IF matchesToInsert = <<>> THEN "done" ELSE "writing",
                      targetUserId |-> targetUserId,
                      version |-> profileChanges,
                      matchesToInsert |-> matchesToInsert,
                      written |-> 0,
                      failed |-> {},
                      result |-> IF ~thrown /\ matchesToInsert = <<>> THEN 0 ELSE 0 - 1,
                      error |-> IF thrown THEN "scoring" ELSE "none",
                      replaced |-> "",
                      fetched |-> TRUE]]
    /\ UNCHANGED <<env, userRows, matches, req, clock, profileChanges, writeFailures>>

\* the query of fetchUserDataForMatching is rejected: the rejection leaves
\* calculateMatches before anything is computed or written.  The faulty
\* variant takes the failed fetch for an empty population.
FetchFailSwallowed(j, targetUserId) ==
    /\ run[j].pc = "idle"
    /\ run' = [run EXCEPT ![j] = [IdleRun EXCEPT !.pc = "done",
                                                 !.targetUserId = targetUserId,
                                                 !.version = profileChanges,
                                                 !.result = 0,
                                                 !.error = "fetch"]]
    /\ UNCHANGED <<env, userRows, matches, req, clock, profileChanges, writeFailures>>

FetchFail(j, targetUserId) ==
    /\ run[j].pc = "idle"
    /\ run' = [run EXCEPT ![j] = [IdleRun EXCEPT !.pc = "failed",
                                                 !.targetUserId = targetUserId,
                                                 !.version = profileChanges,
                                                 !.error = "fetch"]]
    /\ UNCHANGED <<env, userRows, matches, req, clock, profileChanges, writeFailures>>

\* a well-formed id that is not in the users table
UnknownUser == NumUsers + 1

\* POST /api/matches/calculate/:userId: "Check if user exists", then
\* calculateMatches(userId).  The faulty variant omits the check.
CalculateRouteUnchecked(j, userId, order) ==
    StartRun(j, userId, order)

CalculateRoute(j, userId, order) ==
    \/ /\ userId \notin Users
       /\ run[j].pc = "idle"
       /\ run' = [run EXCEPT ![j] = [IdleRun EXCEPT !.pc = "failed",
                                                    !.targetUserId = userId,
                                                    !.version = profileChanges,
                                                    !.error = "USER_NOT_FOUND"]]
       /\ UNCHANGED <<env, userRows, matches, req, clock, profileChanges, writeFailures>>
    \/ /\ userId \in Users
       /\ StartRun(j, userId, order)

\* one iteration of "for (const match of matchesToInsert)": the awaited
\* statement either commits, and after the last one the function returns
\* the count, or breaks a constraint of the table and throws
\* faulty variant: the pair is scored again from the rows of the moment
\* the statement is issued
WriteMatchRescoring(j) ==
    /\ run[j].pc = "writing"
    /\ LET built == run[j].matchesToInsert[run[j].written + 1]
           match == ScorePair(UserSnapshot(built.userId, userRows[built.userId]),
                              UserSnapshot(built.matchedUserId,
                                           userRows[built.matchedUserId]))
           last == run[j].written + 1 = Len(run[j].matchesToInsert)
           hit == RowIndex(matches, match.userId, match.matchedUserId)
           written == Upsert(matches, match, uuidv4(matches), clock)
       IN  IF ConstraintError(written) = "none"
           THEN /\ matches' = written
                /\ run' = [run EXCEPT
                             ![j].written = @ + 1,
                             ![j].pc = IF last THEN "done" ELSE "writing",
                             ![j].matchesToInsert = IF last THEN <<>> ELSE @,
                             ![j].result = IF last THEN Len(run[j].matchesToInsert)
                                           ELSE 0 - 1,
                             ![j].replaced = IF hit = {} THEN "NONE"
                                             ELSE matches[CHOOSE i \in hit : TRUE].status]
           ELSE /\ matches' = matches
                /\ run' = [run EXCEPT ![j].pc = "failed",
                                       ![j].failed = {run[j].written + 1},
                                       ![j].error = ConstraintError(written)]
    /\ UNCHANGED <<env, userRows, req, clock, profileChanges, writeFailures>>

WriteMatch(j) ==
    /\ run[j].pc = "writing"
    /\ LET match == run[j].matchesToInsert[run[j].written + 1]
           last == run[j].written + 1 = Len(run[j].matchesToInsert)
           hit == RowIndex(matches, match.userId, match.matchedUserId)
           written == Upsert(matches, match, uuidv4(matches), clock)
       IN  IF ConstraintError(written) = "none"
           THEN /\ matches' = written
                /\ run' = [run EXCEPT
                             ![j].written = @ + 1,
                             ![j].pc = IF last THEN "done" ELSE "writing",
                             ![j].matchesToInsert = IF last THEN <<>> ELSE @,
                             ![j].result = IF last THEN Len(run[j].matchesToInsert)
                                           ELSE 0 - 1,
                             ![j].replaced = IF hit = {} THEN "NONE"
                                             ELSE matches[CHOOSE i \in hit : TRUE].status]
           ELSE /\ matches' = matches
                /\ run' = [run EXCEPT ![j].pc = "failed",
                                       ![j].failed = {run[j].written + 1},
                                       ![j].error = ConstraintError(written)]
    /\ UNCHANGED <<env, userRows, req, clock, profileChanges, writeFailures>>

\* the database is unreachable for the awaited upsert: nothing catches the
\* rejection inside calculateMatches, so it leaves the loop and the function
\* faulty variant: the rejection is logged and the run reported complete
WriteFailSwallowed(j) ==
    /\ run[j].pc = "writing"
    /\ writeFailures < MaxWriteFailures
    /\ run' = [run EXCEPT ![j].pc = "done",
                           ![j].failed = {run[j].written + 1},
                           ![j].result = Len(run[j].matchesToInsert),
                           ![j].error = "connection"]
    /\ writeFailures' = writeFailures + 1
    /\ UNCHANGED <<env, userRows, matches, req, clock, profileChanges>>

WriteFail(j) ==
    /\ run[j].pc = "writing"
    /\ writeFailures < MaxWriteFailures
    /\ run' = [run EXCEPT ![j].pc = "failed",
                           ![j].failed = {run[j].written + 1},
                           ![j].error = "connection"]
    /\ writeFailures' = writeFailures + 1
    /\ UNCHANGED <<env, userRows, matches, req, clock, profileChanges>>

----------------------------------------------------------------------------
(* Status changes *)

Ids == 1..(NumUsers * (NumUsers - 1) + 1)

HasId(tbl, matchId) == \E i \in 1..Len(tbl) : tbl[i].id = matchId

\* POST /api/matches/:matchId/accept | reject and
\* POST /api/venues/:venueId/select/:matchId up to "Check if match exists"
ReqCheck(h, kind, matchId) ==
    /\ req[h].pc = "idle"
    /\ req' = [req EXCEPT ![h] =
                 IF HasId(matches, matchId)
                 THEN [pc |-> "checked", kind |-> kind, matchId |-> matchId]
                 ELSE [IdleReq EXCEPT !.pc = "notfound"]]
    /\ UNCHANGED <<env, userRows, matches, run, clock, profileChanges, writeFailures>>

\* the UPDATE that follows the check
ReqUpdate(h) ==
    /\ req[h].pc = "checked"
    /\ matches' = IF req[h].kind = "accept"
                  THEN UpdateStatus(matches, req[h].matchId, "ACCEPTED", clock)
                  ELSE IF req[h].kind = "reject"
                  THEN UpdateStatus(matches, req[h].matchId, "REJECTED", clock)
                  ELSE UpdateScheduled(matches, req[h].matchId, clock + 1, clock)
    /\ req' = [req EXCEPT ![h] = [IdleReq EXCEPT !.pc = "done"]]
    /\ UNCHANGED <<env, userRows, run, clock, profileChanges, writeFailures>>

\* the UPDATE of the select route names the column scheduled_venue_id,
\* which the matches table of 01-create-schemas.sql does not have: on
\* that schema the statement is rejected
ReqUpdateFail(h) ==
    /\ req[h].pc = "checked"
    /\ req[h].kind = "select"
    /\ req' = [req EXCEPT ![h] = [IdleReq EXCEPT !.pc = "failed"]]
    /\ UNCHANGED <<env, userRows, matches, run, clock, profileChanges, writeFailures>>

\* a downstream workflow completes or cancels a match
ExternalStatusChange(h, matchId, status) ==
    /\ req[h].pc = "idle"
    /\ HasId(matches, matchId)
    /\ matches' = UpdateStatus(matches, matchId, status, clock)
    /\ req' = [req EXCEPT ![h] = [IdleReq EXCEPT !.pc = "done"]]
    /\ UNCHANGED <<env, userRows, run, clock, profileChanges, writeFailures>>

\* a downstream workflow records the feedback of one side of a match
ExternalFeedback(h, matchId, side, rating) ==
    /\ req[h].pc = "idle"
    /\ HasId(matches, matchId)
    /\ matches' = [i \in 1..Len(matches) |->
                      IF matches[i].id = matchId
                      THEN IF side = "user"
                           THEN [matches[i] EXCEPT !.user_feedback = rating,
                                                   !.updated_at = clock]
                           ELSE [matches[i] EXCEPT !.matched_user_feedback = rating,
                                                   !.updated_at = clock]
                      ELSE matches[i]]
    /\ req' = [req EXCEPT ![h] = [IdleReq EXCEPT !.pc = "done"]]
    /\ UNCHANGED <<env, userRows, run, clock, profileChanges, writeFailures>>

----------------------------------------------------------------------------
(* Environment *)

\* the profile service rewrites a user's profile / persona
ProfileChange(u, row) ==
    /\ profileChanges < MaxProfileChanges
    /\ row # userRows[u]
    /\ userRows' = [userRows EXCEPT ![u] = row]
    /\ profileChanges' = profileChanges + 1
    /\ UNCHANGED <<env, matches, run, req, clock, writeFailures>>

Tick ==
    /\ clock < MaxClock
    /\ clock' = clock + 1
    /\ UNCHANGED <<env, userRows, matches, run, req, profileChanges, writeFailures>>

\* concurrent runs of the job against user-driven status changes
Next ==
    \/ \E j \in Runs, t \in Users \cup {NoTarget}, o \in Orders : StartRun(j, t, o)
    \/ \E j \in Runs : WriteMatch(j)
    \/ \E j \in Runs : WriteFail(j)
    \/ \E h \in Reqs, k \in {"accept", "reject", "select"}, m \in Ids : ReqCheck(h, k, m)
    \/ \E h \in Reqs : ReqUpdate(h)
    \/ \E h \in Reqs : ReqUpdateFail(h)
    \/ \E h \in Reqs, m \in Ids, st \in {"COMPLETED", "CANCELLED"} : ExternalStatusChange(h, m, st)

Spec == Init /\ [][Next]_vars

\* reruns of the job, one at a time, between which users change the status
\* of their matches and update their profiles
IdOrder == [i \in 1..NumUsers |-> i]
NoRunWriting == \A k \in Runs : run[k].pc # "writing"

NextRerun ==
    \/ \E j \in Runs, t \in Users \cup {NoTarget} : NoRunWriting /\ StartRun(j, t, IdOrder)
    \/ \E j \in Runs : WriteMatch(j)
    \/ \E h \in Reqs, k \in {"accept", "reject", "select"}, m \in Ids : ReqCheck(h, k, m)
    \/ \E h \in Reqs : ReqUpdate(h)
    \/ \E h \in Reqs, m \in Ids, st \in {"COMPLETED", "CANCELLED"} : ExternalStatusChange(h, m, st)
    \/ \E u \in Users, row \in ChangeRows : ProfileChange(u, row)

SpecRerun == Init /\ [][NextRerun]_vars

\* runs of the job over every population of the catalogue, with profile
\* updates between and during the runs
InitPop ==
    /\ env \in ThresholdEnvs
    /\ userRows \in [Users -> Catalogue]
    /\ matches = <<>>
    /\ run = [j \in Runs |-> IdleRun]
    /\ req = [h \in Reqs |-> IdleReq]
    /\ clock = 0
    /\ profileChanges = 0
    /\ writeFailures = 0

NextPop ==
    \/ \E j \in Runs, t \in Users \cup {NoTarget} : StartRun(j, t, IdOrder)
    \/ \E j \in Runs : WriteMatch(j)
    \/ \E u \in Users, row \in ChangeRows : ProfileChange(u, row)
    \/ Tick

SpecPop == InitPop /\ [][NextPop]_vars

\* two users with complete rows, for the life of their rows: re-runs one
\* after the other, venue selection, feedback, and time passing
InitFrame ==
    /\ env \in ThresholdEnvs
    /\ userRows = [u \in Users |-> MirrorRow]
    /\ matches = <<>>
    /\ run = [j \in Runs |-> IdleRun]
    /\ req = [h \in Reqs |-> IdleReq]
    /\ clock = 0
    /\ profileChanges = 0
    /\ writeFailures = 0

NextFrame ==
    \/ \E j \in Runs, t \in Users \cup {NoTarget} : NoRunWriting /\ StartRun(j, t, IdOrder)
    \/ \E j \in Runs : WriteMatch(j)
    \/ \E h \in Reqs, matchId \in Ids : ReqCheck(h, "select", matchId)
    \/ \E h \in Reqs : ReqUpdate(h)
    \/ \E h \in Reqs, matchId \in Ids, side \in {"user", "matched"} :
          ExternalFeedback(h, matchId, side, 4)
    \/ \E u \in Users : ProfileChange(u, ComplementRow)
    \/ Tick

SpecFrame == InitFrame /\ [][NextFrame]_vars

\* the calculate route, the scheduled full run and the ways a run can end
NextRoute ==
    \/ \E j \in Runs, u \in Users \cup {UnknownUser} : CalculateRoute(j, u, IdOrder)
    \/ \E j \in Runs : StartRun(j, NoTarget, IdOrder)
    \/ \E j \in Runs, t \in Users \cup {NoTarget} : FetchFail(j, t)
    \/ \E j \in Runs : WriteMatch(j)
    \/ \E j \in Runs : WriteFail(j)
    \/ \E h \in Reqs, kind \in {"accept", "reject"}, matchId \in Ids : ReqCheck(h, kind, matchId)
    \/ \E h \in Reqs : ReqUpdate(h)

SpecRoute == Init /\ [][NextRoute]_vars

\* one full-population run over a subject row and a candidate row (any
\* further user has the rows the trigger creates)
InitScore ==
    /\ env \in ThresholdEnvs
    /\ userRows \in {[u \in Users |-> IF u = 1 THEN a ELSE IF u = 2 THEN b ELSE TriggerRow] :
                        a \in SubjectRows, b \in CandidateRows}
    /\ matches = <<>>
    /\ run = [j \in Runs |-> IdleRun]
    /\ req = [h \in Reqs |-> IdleReq]
    /\ clock = 0
    /\ profileChanges = 0
    /\ writeFailures = 0

NextScore ==
    \/ StartRun(1, NoTarget, IdOrder)
    \/ WriteMatch(1)

SpecScore == InitScore /\ [][NextScore]_vars

\* one full-population run over a subject and a candidate of the scenarios
InitScenario ==
    /\ env \in ThresholdEnvs
    /\ userRows \in {[u \in Users |-> IF u = 1 THEN a ELSE IF u = 2 THEN b ELSE TriggerRow] :
                        a \in ScenarioSubjects, b \in ScenarioCandidates}
    /\ matches = <<>>
    /\ run = [j \in Runs |-> IdleRun]
    /\ req = [h \in Reqs |-> IdleReq]
    /\ clock = 0
    /\ profileChanges = 0
    /\ writeFailures = 0

SpecScenario == InitScenario /\ [][NextScore]_vars

\* one full-population run over a subject and a candidate of the location,
\* industry and experience rows
InitFit ==
    /\ env \in ThresholdEnvs
    /\ userRows \in {[u \in Users |-> IF u = 1 THEN a ELSE IF u = 2 THEN b ELSE TriggerRow] :
                        a \in FitSubjects, b \in FitCandidates}
    /\ matches = <<>>
    /\ run = [j \in Runs |-> IdleRun]
    /\ req = [h \in Reqs |-> IdleReq]
    /\ clock = 0
    /\ profileChanges = 0
    /\ writeFailures = 0

SpecFit == InitFit /\ [][NextScore]_vars

----------------------------------------------------------------------------
(* Properties *)

\* the six score columns of a stored row, and the values an upsert of
\* match stores in them
RowScores(row) ==
    <<row.score_overall, row.score_professional_fit, row.score_personal_fit,
      row.score_skills_alignment, row.score_industry_alignment,
      row.score_experience_compatibility>>

StoredScores(match) ==
    <<Round3(match.scoreOverall), Round3(match.scoreProfessionalFit),
      Round3(match.scorePersonalFit), Round3(match.scoreSkillsAlignment),
      Round3(match.scoreIndustryAlignment), Round3(match.scoreExperienceCompatibility)>>

Keys(tbl) == {<<tbl[i].user_id, tbl[i].matched_user_id>> : i \in 1..Len(tbl)}

\* the match a run is about to upsert
NextMatch(j) == run[j].matchesToInsert[run[j].written + 1]

\* run j commits an upsert in this step
Commits(j) == WriteMatch(j) /\ run'[j].pc # "failed"

\* C1: status non-regression.  When a run of calculateMatches (single-user
\* or full-population) upserts a pair whose row has status ACCEPTED,
\* REJECTED, SCHEDULED, COMPLETED or CANCELLED, the row keeps that status
\* and its six score columns become the newly computed scores.
C1_StatusNonRegression ==
    [][\A j \in Runs :
          Commits(j) =>
            \A i \in RowIndex(matches, NextMatch(j).userId, NextMatch(j).matchedUserId) :
                matches[i].status \in PreservedStatuses =>
                    /\ matches'[i].status = matches[i].status
                    /\ RowScores(matches'[i]) = StoredScores(NextMatch(j))]_vars

\* a rerun has refreshed the score of a row a user had moved out of PENDING
C1_Witness ==
    \E j \in Runs, i \in 1..Len(matches) :
        /\ run[j].pc = "writing" /\ run[j].written >= 1
        /\ run[j].version > 0
        /\ run[j].replaced \in PreservedStatuses
        /\ matches[i].user_id = run[j].matchesToInsert[run[j].written].userId
        /\ matches[i].matched_user_id = run[j].matchesToInsert[run[j].written].matchedUserId
        /\ matches[i].status = run[j].replaced
        /\ RowScores(matches[i]) = StoredScores(run[j].matchesToInsert[run[j].written])

\* C2: under every interleaving of job upserts with accept, reject and
\* venue selection, a row whose status is not PENDING is never PENDING in
\* the next state (and is still there).
C2_NeverBackToPending ==
    [][\A i \in 1..Len(matches) :
          matches[i].status # "PENDING" =>
            /\ i <= Len(matches')
            /\ matches'[i].id = matches[i].id
            /\ matches'[i].status # "PENDING"]_vars

\* two runs are in their write phase, and one of them has just upserted a
\* row that a user had already moved out of PENDING
C2_Witness ==
    \E j, k \in Runs :
        /\ j # k
        /\ run[j].pc = "writing" /\ run[j].written >= 1
        /\ run[j].replaced \in PreservedStatuses
        /\ run[k].pc = "writing" /\ run[k].written >= 1

\* C3: the table holds at most one row per ordered pair, and no upsert of
\* a run fails with a uniqueness violation, whatever other run writes the
\* same pair at the same time.
C3_OneRowPerPair ==
    /\ \A i, k \in 1..Len(matches) :
          (matches[i].user_id = matches[k].user_id
             /\ matches[i].matched_user_id = matches[k].matched_user_id) => i = k
    /\ \A j \in Runs : run[j].error \notin {"unique_violation", "primary_key"}

\* two runs in their write phase have both upserted the same pair: the
\* first inserted the row, the second met it
C3_Witness ==
    \E j, k \in Runs :
        /\ j # k
        /\ run[j].pc = "writing" /\ run[k].pc = "writing"
        /\ run[j].written = 1 /\ run[k].written = 1
        /\ run[j].matchesToInsert[1].userId = run[k].matchesToInsert[1].userId
        /\ run[j].matchesToInsert[1].matchedUserId = run[k].matchesToInsert[1].matchedUserId
        /\ run[j].replaced = "NONE" /\ run[k].replaced = "PENDING"

\* C4: idempotent insert.  Once a full-population run has completed, every
\* upsert of another full-population run over the same population commits,
\* inserts no row and leaves the set of keys as it was.
C4_IdempotentInsert ==
    [][\A j \in Runs :
          (/\ WriteMatch(j)
           /\ run[j].targetUserId = NoTarget
           /\ \E k \in Runs : /\ k # j
                               /\ run[k].pc = "done"
                               /\ run[k].targetUserId = NoTarget
                               /\ run[k].version = run[j].version)
          => /\ run'[j].pc # "failed"
             /\ Len(matches') = Len(matches)
             /\ Keys(matches') = Keys(matches)]_vars

\* two full-population runs over the same population have completed, the
\* second one having updated rows the first one inserted
C4_Witness ==
    \E j, k \in Runs :
        /\ j # k
        /\ run[j].pc = "done" /\ run[k].pc = "done"
        /\ run[j].targetUserId = NoTarget /\ run[k].targetUserId = NoTarget
        /\ run[j].version = run[k].version
        /\ run[j].result = 2 /\ run[k].result = 2
        /\ run[j].replaced = "NONE" /\ run[k].replaced = "PENDING"
        /\ Len(matches) = 2

\* C5: per-upsert status rule.  An upsert of a pair without a row appends
\* a PENDING row carrying the six computed scores; an upsert of a pair
\* with a row leaves the old status if it is ACCEPTED, REJECTED, SCHEDULED,
\* COMPLETED or CANCELLED and PENDING otherwise.
C5_UpsertStatusRule ==
    [][\A j \in Runs :
          Commits(j) =>
            LET hit == RowIndex(matches, NextMatch(j).userId, NextMatch(j).matchedUserId)
            IN  IF hit = {}
                THEN /\ Len(matches') = Len(matches) + 1
                     /\ matches'[Len(matches')].status = "PENDING"
                     /\ matches'[Len(matches')].user_id = NextMatch(j).userId
                     /\ matches'[Len(matches')].matched_user_id = NextMatch(j).matchedUserId
                     /\ RowScores(matches'[Len(matches')]) = StoredScores(NextMatch(j))
                ELSE /\ Len(matches') = Len(matches)
                     /\ \A i \in hit :
                          matches'[i].status =
                            (IF matches[i].status \in PreservedStatuses
                             THEN matches[i].status ELSE "PENDING")]_vars

\* runs have inserted a row, met a PENDING row and met a CANCELLED row
C5_Witness ==
    \E j, k \in Runs :
        /\ run[j].replaced = "CANCELLED"
        /\ run[k].replaced \in {"NONE", "PENDING"}
        /\ \E i \in 1..Len(matches) : matches[i].status = "CANCELLED"

\* the overall score the scorer gives the pair of a row from the users'
\* present rows
CurrentOverall(row) ==
    ScorePair(UserSnapshot(row.user_id, userRows[row.user_id]),
              UserSnapshot(row.matched_user_id, userRows[row.matched_user_id])).scoreOverall

\* a full-population run has completed since the last profile change and no
\* run is under way
FullRunSettled ==
    /\ \E j \in Runs : /\ run[j].pc = "done"
                        /\ run[j].targetUserId = NoTarget
                        /\ run[j].version = profileChanges
    /\ \A j \in Runs : run[j].pc # "writing"

\* C6: threshold filtering.  Once a full-population run has completed over
\* the present profiles, no row of the table is of a pair whose overall
\* score is below the threshold the job applies.
C6_ThresholdFiltering ==
    FullRunSettled =>
        \A i \in 1..Len(matches) : CurrentOverall(matches[i]) >= MATCH_THRESHOLD(env)

Complete(row) == row.hasProfile /\ row.hasPersona

\* C8: missing-data skip.  No match a run builds, and no row it stores, has
\* a subject or a candidate without profile or persona data.
C8_MissingDataSkip ==
    /\ \A j \in Runs : \A k \in 1..Len(run[j].matchesToInsert) :
          /\ Complete(userRows[run[j].matchesToInsert[k].userId])
          /\ Complete(userRows[run[j].matchesToInsert[k].matchedUserId])
    /\ \A i \in 1..Len(matches) :
          /\ Complete(userRows[matches[i].user_id])
          /\ Complete(userRows[matches[i].matched_user_id])

InUnit(x) == 0 <= x /\ x <= Scale

\* C9: range invariant.  The five sub-scores and the overall score of every
\* match a run builds lie in [0,1], every stored score lies in [0,1], and
\* no upsert is rejected by a score CHECK constraint.
C9_RangeInvariant ==
    /\ \A j \in Runs : \A k \in 1..Len(run[j].matchesToInsert) :
          LET m == run[j].matchesToInsert[k]
          IN  /\ InUnit(m.scoreOverall)
              /\ InUnit(m.scoreProfessionalFit)
              /\ InUnit(m.scorePersonalFit)
              /\ InUnit(m.scoreSkillsAlignment)
              /\ InUnit(m.scoreIndustryAlignment)
              /\ InUnit(m.scoreExperienceCompatibility)
    /\ \A i \in 1..Len(matches) : \A k \in 1..6 : InRange01(RowScores(matches[i])[k])
    /\ \A j \in Runs : run[j].error # "score_check"

\* a run has stored the scores of a pair whose subject has no skills, next
\* to a pair one of whose scores is 1
C9_Witness ==
    /\ Len(matches) = 2
    /\ userRows[1].skills = <<>>
    /\ matches[1].score_skills_alignment = 0
    /\ \E k \in 1..6 : RowScores(matches[2])[k] = 1000
    /\ run[1].pc = "done"

\* C10: persistence failure isolation.  When a run is over, every pair of
\* matchesToInsert other than one whose upsert failed has been upserted.
C10_FailureIsolation ==
    \A j \in Runs :
        run[j].pc \in {"done", "failed"} =>
            run[j].written + Cardinality(run[j].failed)
                = (IF run[j].pc = "done" THEN run[j].result ELSE Len(run[j].matchesToInsert))

\* C11: per-pair exception isolation.  No run is aborted by an exception
\* raised while a pair is scored: the pair is dropped and the run goes on.
C11_PairExceptionIsolation ==
    \A j \in Runs : run[j].pc = "failed" => run[j].error # "scoring"

\* C12: unknown-target error.  A recompute request for a userId that is not
\* in the users table ends with the error USER_NOT_FOUND before
\* calculateMatches starts: the population is not fetched, nothing is
\* built or upserted, and the table is unchanged.
C12_UnknownTargetError ==
    [][\A j \in Runs :
          (run[j].pc = "idle" /\ run'[j].pc # "idle" /\ run'[j].targetUserId = UnknownUser) =>
              /\ run'[j].pc = "failed"
              /\ run'[j].error = "USER_NOT_FOUND"
              /\ ~run'[j].fetched
              /\ run'[j].matchesToInsert = <<>>
              /\ run'[j].written = 0
              /\ run'[j].result = 0 - 1
              /\ matches' = matches]_vars

\* a request for an unknown user has been rejected while the table holds rows
C12_Witness ==
    \E j \in Runs :
        /\ run[j].targetUserId = UnknownUser
        /\ run[j].error = "USER_NOT_FOUND"
        /\ Len(matches) >= 1

\* C13: fatal fetch error.  A run whose population fetch fails ends with an
\* error, builds and upserts nothing, and leaves the table as it was.
C13_FatalFetchError ==
    [][\A j \in Runs :
          /\ (run[j].error # "fetch" /\ run'[j].error = "fetch") =>
                 /\ run'[j].pc = "failed"
                 /\ run'[j].matchesToInsert = <<>>
                 /\ run'[j].written = 0
                 /\ run'[j].result = 0 - 1
                 /\ matches' = matches
          /\ run[j].error = "fetch" => run'[j] = run[j]]_vars

\* a fetch has failed while the table holds rows
C13_Witness ==
    \E j \in Runs :
        /\ run[j].error = "fetch"
        /\ run[j].pc = "failed"
        /\ Len(matches) >= 1

\* C14: result reporting.  A run that returns a count returns the number of
\* upserts it committed, with no pair left out; a run in which an upsert
\* failed, or that was aborted, returns no count.
C14_ResultReporting ==
    \A j \in Runs :
        /\ run[j].pc = "done" => run[j].result = run[j].written /\ run[j].failed = {}
        /\ run[j].pc = "failed" => run[j].result = 0 - 1
        /\ run[j].failed # {} => run[j].pc = "failed"

\* a run has committed an upsert and then lost the next one
C14_Witness ==
    \E j \in Runs :
        /\ run[j].pc = "failed"
        /\ run[j].written >= 1
        /\ run[j].failed = {run[j].written + 1}
        /\ Len(run[j].matchesToInsert) > run[j].written

\* C15: upsert frame.  An upsert of the job that hits an existing row leaves
\* its id, pair, created_at, scheduled_time, user_feedback and
\* matched_user_feedback as they were and overwrites the scores, the score
\* details and updated_at, the status following the preservation rule.
C15_UpsertFrame ==
    [][\A j \in Runs :
          Commits(j) =>
              LET match == NextMatch(j)
              IN  \A i \in RowIndex(matches, match.userId, match.matchedUserId) :
                      /\ matches'[i].id = matches[i].id
                      /\ matches'[i].user_id = matches[i].user_id
                      /\ matches'[i].matched_user_id = matches[i].matched_user_id
                      /\ matches'[i].created_at = matches[i].created_at
                      /\ matches'[i].scheduled_time = matches[i].scheduled_time
                      /\ matches'[i].user_feedback = matches[i].user_feedback
                      /\ matches'[i].matched_user_feedback = matches[i].matched_user_feedback
                      /\ matches'[i].status = ConflictStatus(matches[i].status)
                      /\ RowScores(matches'[i]) = StoredScores(match)
                      /\ matches'[i].score_details = match.scoreDetails
                      /\ matches'[i].updated_at = clock]_vars

\* a later run has rewritten the scores of a row that was created earlier,
\* has been scheduled and carries feedback
C15_Witness ==
    \E j \in Runs :
        /\ run[j].written >= 1
        /\ run[j].replaced = "SCHEDULED"
        /\ run[j].version > 0
        /\ \E i \in 1..Len(matches) :
              /\ matches[i].created_at < matches[i].updated_at
              /\ matches[i].scheduled_time # NoTime
              /\ matches[i].user_feedback # NoNum
              /\ matches[i].status = "SCHEDULED"
              /\ matches[i].score_overall < 875

\* C16: no deletion by the job.  No step of a run removes a row: the keys of
\* the table only grow, and a row other than the one an upsert is written
\* to, a row of a pair the run did not keep among them, is left exactly as
\* it was.
C16_NoDeletion ==
    [][/\ Keys(matches) \subseteq Keys(matches')
       /\ Len(matches') >= Len(matches)
       /\ \A i \in 1..Len(matches) :
             \/ matches'[i] = matches[i]
             \/ \E j \in Runs :
                   /\ Commits(j)
                   /\ NextMatch(j).userId = matches[i].user_id
                   /\ NextMatch(j).matchedUserId = matches[i].matched_user_id]_vars

\* a full run over changed profiles has ended, and a row it did not keep
\* is still in the table with the score of the earlier run
C16_Witness ==
    /\ env = EnvUnset
    /\ FullRunSettled
    /\ profileChanges > 0
    /\ \E i \in 1..Len(matches) :
          /\ CurrentOverall(matches[i]) < MATCH_THRESHOLD(env)
          /\ matches[i].score_overall >= 500
          /\ matches[i].status = "PENDING"

\* the two rows are the two directions of one pair of users
Reverse(r, q) == r.user_id = q.matched_user_id /\ r.matched_user_id = q.user_id

\* the match the scorer builds for subject a and candidate b
Directed(a, b) == ScorePair(UserSnapshot(a, userRows[a]), UserSnapshot(b, userRows[b]))

\* C17: directional records.  Once a full-population run has completed, two
\* users whose directed scores both reach the threshold have two rows, one
\* per direction, each with the scores computed for its own direction; and
\* a step that changes the row of one direction, an upsert or a status
\* change, leaves the row of the other direction as it was.
C17_DirectionalRecords ==
    [][/\ \A i, k \in 1..Len(matches) :
             (Reverse(matches[i], matches[k]) /\ matches'[i] # matches[i])
                 => matches'[k] = matches[k]
       /\ (\E j \in Runs : run'[j].pc = "done" /\ run'[j].targetUserId = NoTarget
                             /\ run'[j].error = "none") =>
             \A a, b \in Users :
                 (/\ a # b
                  /\ Directed(a, b).scoreOverall >= MATCH_THRESHOLD(env)
                  /\ Directed(b, a).scoreOverall >= MATCH_THRESHOLD(env)) =>
                     \E i, k \in 1..Len(matches') :
                         /\ i # k
                         /\ matches'[i].user_id = a /\ matches'[i].matched_user_id = b
                         /\ matches'[k].user_id = b /\ matches'[k].matched_user_id = a
                         /\ RowScores(matches'[i]) = StoredScores(Directed(a, b))
                         /\ RowScores(matches'[k]) = StoredScores(Directed(b, a))]_vars

\* both directions of a pair are stored with different scores, and one of
\* them has been accepted while the other is still pending
C17_Witness ==
    \E i, k \in 1..Len(matches) :
        /\ Reverse(matches[i], matches[k])
        /\ matches[i].score_overall # matches[k].score_overall
        /\ matches[i].status = "ACCEPTED"
        /\ matches[k].status = "PENDING"
        /\ \E j \in Runs : run[j].pc = "done" /\ run[j].targetUserId = NoTarget

\* the threshold the operator configured, in thousandths: 0.5 when the
\* variable is unset, else the number the configured text denotes
ConfiguredThreshold ==
    IF env = EnvUnset THEN 500 ELSE IF env = EnvNaN THEN 750 ELSE env

\* C18: configurable threshold.  No match a run builds and no row it stores
\* has an overall score below the configured threshold.
C18_ConfigurableThreshold ==
    /\ \A j \in Runs : \A k \in 1..Len(run[j].matchesToInsert) :
          run[j].matchesToInsert[k].scoreOverall * 1000 >= ConfiguredThreshold * Scale
    /\ \A i \in 1..Len(matches) : matches[i].score_overall >= ConfiguredThreshold

\* the weighted sum of the sub-scores of a built match
WeightedOf(m) ==
    (m.scoreSkillsAlignment * 5 + m.scoreIndustryAlignment * 2
     + m.scoreProfessionalFit + m.scorePersonalFit * 2) \div 10

SkillSet(u) == Range(OrEmpty(userRows[u].skills))

ExperienceMatches(a, b) ==
    \/ userRows[a].experience_level_preference = "ANY"
    \/ userRows[a].experience_level_preference = userRows[b].experience_level_preference

\* scenario 1: five skills each, three of them shared, the same city, the
\* subject a MIRROR, matching experience preference
Scenario1(a, b) ==
    /\ Cardinality(SkillSet(a)) = 5
    /\ Cardinality(SkillSet(b)) = 5
    /\ Cardinality(SkillSet(a) \cap SkillSet(b)) = 3
    /\ SameStr(userRows[a].city, userRows[b].city)
    /\ userRows[a].match_type = "MIRROR"
    /\ ExperienceMatches(a, b)

\* scenario 1 with, in addition, the same state, at most five desired
\* skills, and the candidate's industry among the subject's preferences
Scenario1SameState(a, b) ==
    /\ Scenario1(a, b)
    /\ SameStr(userRows[a].state, userRows[b].state)
    /\ Cardinality(Range(OrEmpty(userRows[a].skills_desired))) <= 5
    /\ TruthyStr(userRows[b].linkedin_industry)
    /\ userRows[b].linkedin_industry \in Range(OrEmpty(userRows[a].industry_preferences))

\* what scenario 1 expects of the pairs that satisfy Pre
Scenario1Expectation(Pre(_, _)) ==
    /\ \A j \in Runs : \A k \in 1..Len(run[j].matchesToInsert) :
          LET m == run[j].matchesToInsert[k]
          IN  Pre(m.userId, m.matchedUserId) =>
                  /\ m.scoreSkillsAlignment * 10 >= 3 * Scale
                  /\ m.scoreProfessionalFit = Scale
                  /\ m.scoreExperienceCompatibility = Scale
                  /\ m.scoreOverall = WeightedOf(m)
                  /\ m.scoreOverall * 2 > Scale
    /\ \A a, b \in Users :
          (/\ a # b
           /\ Pre(a, b)
           /\ env = EnvUnset
           /\ \E j \in Runs : run[j].pc = "done" /\ run[j].targetUserId = NoTarget) =>
              \E i \in 1..Len(matches) :
                  /\ matches[i].user_id = a
                  /\ matches[i].matched_user_id = b
                  /\ matches[i].status = "PENDING"
                  /\ matches[i].score_overall > 500

\* C19 as stated: scenario 1 generalised.  For every subject and candidate
\* with five skills each, three shared, the same city, MIRROR and matching
\* experience preference: skillsAlignment >= 0.3, professionalFit = 1.0,
\* multiplier 1.0, overall above 0.5 and a PENDING record.
C19_Scenario1 == Scenario1Expectation(Scenario1)

\* C19 amended: the same expectation for the pairs of scenario 1 that also
\* have the same state, at most five desired skills and the candidate's
\* industry among the subject's industry preferences.
C19_Scenario1SameState == Scenario1Expectation(Scenario1SameState)

\* the run over such a pair has stored its PENDING record
C19_Witness ==
    /\ env = EnvUnset
    /\ Scenario1SameState(1, 2)
    /\ userRows[1].skills_desired = <<>>
    /\ userRows[2].profession = "designer"
    /\ run[1].pc = "done"
    /\ \E i \in 1..Len(matches) :
          /\ matches[i].user_id = 1 /\ matches[i].matched_user_id = 2
          /\ matches[i].status = "PENDING"
          /\ matches[i].score_overall = 534

\* scenario 2: disjoint skills, neither city nor state in common, no
\* coordinates, the subject a COMPLEMENT, mismatched experience preference
Scenario2(a, b) ==
    /\ SkillSet(a) # {} /\ SkillSet(b) # {}
    /\ SkillSet(a) \cap SkillSet(b) = {}
    /\ ~SameStr(userRows[a].city, userRows[b].city)
    /\ ~SameStr(userRows[a].state, userRows[b].state)
    /\ userRows[a].latitude = NoNum /\ userRows[a].longitude = NoNum
    /\ userRows[b].latitude = NoNum /\ userRows[b].longitude = NoNum
    /\ userRows[a].match_type = "COMPLEMENT"
    /\ ~ExperienceMatches(a, b)

\* what scenario 2 expects, the multiplier given in hundredths
Scenario2Expectation(multiplier100) ==
    \A j \in Runs : \A k \in 1..Len(run[j].matchesToInsert) :
        LET m == run[j].matchesToInsert[k]
        IN  Scenario2(m.userId, m.matchedUserId) =>
                /\ m.scoreProfessionalFit = 0
                /\ m.scoreOverall = (WeightedOf(m) * multiplier100) \div 100

\* C20 as stated: scenario 2 generalised.  professionalFit = 0 and the
\* multiplier applied to the weighted sum of the sub-scores is 0.8.
C20_Scenario2 == Scenario2Expectation(80)

\* C20 amended: professionalFit = 0 and the multiplier applied to the
\* weighted sum of the sub-scores is 0.9, that is 0.8 + 0.2 * 0.5.
C20_Scenario2Multiplier == Scenario2Expectation(90)

\* a run has built the match of such a pair, its weighted sum above zero
C20_Witness ==
    \E j \in Runs : \E k \in 1..Len(run[j].matchesToInsert) :
        LET m == run[j].matchesToInsert[k]
        IN  /\ Scenario2(m.userId, m.matchedUserId)
            /\ WeightedOf(m) > 0
            /\ m.scoreExperienceCompatibility = Scale \div 2
            /\ m.scoreOverall < WeightedOf(m)

\* the pairs whose directed score reaches the threshold the job applies
Qualified ==
    {p \in Users \X Users :
        p[1] # p[2] /\ Directed(p[1], p[2]).scoreOverall >= MATCH_THRESHOLD(env)}

\* a full-population run has returned its count
FullRunComplete(r) ==
    \E j \in Runs : /\ r[j].pc = "done"
                    /\ r[j].targetUserId = NoTarget
                    /\ r[j].error = "none"

\* C21: safe retry after an aborted run.  Whatever prefix of its upserts a
\* run committed before it stopped, the table breaks no constraint and no
\* upsert has changed a status; and once a full-population run over the same
\* population has completed, the table holds exactly the pairs that reach
\* the threshold, each with the scores of its own direction, as it would
\* without the aborted run.
C21_SafeRetry ==
    [][/\ ConstraintError(matches') = "none"
       /\ \A j \in Runs :
             Commits(j) =>
                 /\ \A i \in 1..Len(matches) : matches'[i].status = matches[i].status
                 /\ \A i \in (1..Len(matches')) \ (1..Len(matches)) :
                        matches'[i].status = "PENDING"
       /\ FullRunComplete(run') =>
             /\ Keys(matches') = Qualified
             /\ \A i \in 1..Len(matches') :
                    RowScores(matches'[i]) =
                        StoredScores(Directed(matches'[i].user_id,
                                              matches'[i].matched_user_id))]_vars

\* a full-population run stopped on a lost connection after the first of
\* its two upserts, another one has written both rows and completed, and a
\* row carries the status ACCEPTED
C21_Witness ==
    /\ \E j \in Runs : /\ run[j].pc = "failed"
                        /\ run[j].error = "connection"
                        /\ run[j].targetUserId = NoTarget
                        /\ run[j].written = 1
    /\ \E j \in Runs : /\ run[j].pc = "done"
                        /\ run[j].targetUserId = NoTarget
                        /\ run[j].result = 2
    /\ Len(matches) = 2
    /\ \E i \in 1..Len(matches) : matches[i].status = "ACCEPTED"

\* C22: phase ordering.  The step that fetches the population scores every
\* targeted pair on the rows it fetched and writes nothing; from then on
\* the list of built matches is fixed, whatever happens to the profiles,
\* and every upsert stores the scores of that list.
C22_PhaseOrdering ==
    [][\A j \in Runs :
          /\ (run[j].pc = "idle" /\ run'[j].fetched) =>
                LET allUsersData == fetchUserDataForMatching(userRows, IdOrder)
                    targetUserId == run'[j].targetUserId
                IN  /\ matches' = matches
                    /\ run'[j].written = 0
                    /\ ~ScoringThrows(allUsersData, targetUserId, env) =>
                          run'[j].matchesToInsert =
                              BuildMatches(allUsersData, targetUserId, env)
          /\ run[j].pc = "writing" =>
                \/ run'[j].matchesToInsert = run[j].matchesToInsert
                \/ run'[j].pc = "done" /\ run'[j].written = Len(run[j].matchesToInsert)
          /\ Commits(j) =>
                \E i \in 1..Len(matches') :
                    /\ matches'[i].user_id = NextMatch(j).userId
                    /\ matches'[i].matched_user_id = NextMatch(j).matchedUserId
                    /\ RowScores(matches'[i]) = StoredScores(NextMatch(j))]_vars

\* a full run that fetched after a profile change has written both rows,
\* and a run that had fetched before the change has then overwritten one
\* with the score of the profiles it fetched
C22_Witness ==
    \E j, k \in Runs :
        /\ run[k].version = 1 /\ run[k].pc = "done"
        /\ run[k].targetUserId = NoTarget /\ run[k].result = 2
        /\ run[j].version = 0 /\ run[j].written >= 1
        /\ \E i \in 1..Len(matches) :
              matches[i].score_overall # Round3(CurrentOverall(matches[i]))

\* the pairs of a list of built matches, in the order of the list
PairsOf(built) == [k \in 1..Len(built) |-> <<built[k].userId, built[k].matchedUserId>>]

\* C23: pair count.  A call whose scoring ends without an exception, over a
\* population in which every user has profile and persona data, evaluates
\* every ordered pair of distinct users exactly once, n*(n-1) pairs, when it
\* is a full run, and the n-1 pairs whose subject is the target, each once,
\* when it is a single-user run; the matches it builds are the evaluated
\* pairs that reach the threshold, in the order of evaluation.
C23_PairCount ==
    [][\A j \in Runs :
          (/\ run[j].pc = "idle" /\ run'[j].fetched
           /\ \A u \in Users : Complete(userRows[u])
           /\ run'[j].error = "none") =>
              LET allUsersData == fetchUserDataForMatching(userRows, IdOrder)
                  targetUserId == run'[j].targetUserId
                  evaluated == EvaluatedPairs(allUsersData, targetUserId, env)
                  kept(pair) == Directed(pair[1], pair[2]).scoreOverall
                                    >= MATCH_THRESHOLD(env)
              IN  /\ \A a, b \in Users :
                         Cardinality({k \in 1..Len(evaluated) : evaluated[k] = <<a, b>>})
                             = IF a # b /\ targetUserId \in {NoTarget, a} THEN 1 ELSE 0
                  /\ Len(evaluated) = IF targetUserId = NoTarget
                                      THEN NumUsers * (NumUsers - 1)
                                      ELSE NumUsers - 1
                  /\ PairsOf(run'[j].matchesToInsert) = SelectSeq(evaluated, kept)]_vars

\* over users with complete data, a full run has built a match for each of
\* the n*(n-1) ordered pairs and a single-user run one for each of the n-1
\* pairs of its target, the threshold letting every evaluated pair through
C23_Witness ==
    /\ \A u \in Users : Complete(userRows[u])
    /\ MATCH_THRESHOLD(env) = 0
    /\ \E j, k \in Runs :
          /\ run[j].pc = "writing" /\ run[j].targetUserId = NoTarget
          /\ Len(run[j].matchesToInsert) = NumUsers * (NumUsers - 1)
          /\ run[k].pc = "writing" /\ run[k].targetUserId # NoTarget
          /\ Len(run[k].matchesToInsert) = NumUsers - 1
          /\ \A m \in 1..Len(run[k].matchesToInsert) :
                run[k].matchesToInsert[m].userId = run[k].targetUserId

\* C24: overall combination.  Of every match a run builds, the industry
\* score is 1.0 when the candidate's industry is present and among the
\* subject's industry preferences and 0.2 otherwise, the experience score
\* is 1.0 when the subject's preference is ANY or equals the candidate's and
\* 0.5 otherwise, and the overall score is
\* (skills*0.5 + industry*0.2 + professionalFit*0.1 + personalFit*0.2)
\* * (0.8 + experience*0.2), kept within [0,1].
C24_OverallCombination ==
    \A j \in Runs : \A k \in 1..Len(run[j].matchesToInsert) :
        LET m == run[j].matchesToInsert[k]
            subject == userRows[m.userId]
            candidate == userRows[m.matchedUserId]
            industryMatches ==
                /\ candidate.linkedin_industry # NULL
                /\ candidate.linkedin_industry
                       \in Range(OrEmpty(subject.industry_preferences))
            multiplier100 == 80 + (20 * m.scoreExperienceCompatibility) \div Scale
        IN  /\ m.scoreIndustryAlignment = IF industryMatches THEN Scale ELSE Scale \div 5
            /\ m.scoreExperienceCompatibility =
                   IF ExperienceMatches(m.userId, m.matchedUserId)
                   THEN Scale ELSE Scale \div 2
            /\ m.scoreOverall =
                   Min2(Scale, Max2(0, (WeightedOf(m) * multiplier100) \div 100))

\* a run has built both directions of a pair: in one the candidate's
\* industry is not among the preferences and the experience preference is
\* not met, in the other the industry is among the preferences
C24_Witness ==
    \E j \in Runs : \E k, l \in 1..Len(run[j].matchesToInsert) :
        LET m == run[j].matchesToInsert[k]
            r == run[j].matchesToInsert[l]
        IN  /\ userRows[m.matchedUserId].linkedin_industry = "media"
            /\ userRows[m.userId].industry_preferences = <<"finance", "tech">>
            /\ m.scoreIndustryAlignment = Scale \div 5
            /\ m.scoreExperienceCompatibility = Scale \div 2
            /\ m.scoreOverall = (WeightedOf(m) * 90) \div 100
            /\ r.userId = m.matchedUserId
            /\ r.scoreIndustryAlignment = Scale
            /\ r.scoreOverall > m.scoreOverall

\* the desired skills of a user, as a set
DesiredSet(u) == Range(OrEmpty(userRows[u].skills_desired))

\* C25: skills alignment.  With U the subject's skills, C the candidate's
\* and D the subject's desired skills, each taken as a set, the skills
\* score of every match a run builds is
\* (|U \cap C| + |C \cap D|) / (2 * max(|U|, |C|, |D|)), and 0 when the three
\* sets are empty; a subject without skills and without desired skills
\* scores 0 against every candidate.
C25_SkillsAlignment ==
    \A j \in Runs : \A k \in 1..Len(run[j].matchesToInsert) :
        LET m == run[j].matchesToInsert[k]
            U == SkillSet(m.userId)
            C == SkillSet(m.matchedUserId)
            D == DesiredSet(m.userId)
            largest == Max2(Cardinality(U), Max2(Cardinality(C), Cardinality(D)))
        IN  /\ largest = 0 => m.scoreSkillsAlignment = 0
            /\ largest > 0 =>
                  m.scoreSkillsAlignment * 2 * largest
                      = (Cardinality(U \cap C) + Cardinality(C \cap D)) * Scale
            /\ (U = {} /\ D = {}) => m.scoreSkillsAlignment = 0

\* a run has built the match of a subject whose skills array names a skill
\* twice with a candidate who has the subject's two skills, one of them
\* desired: (2 + 1) / (2 * 2)
C25_Witness ==
    \E j \in Runs : \E k \in 1..Len(run[j].matchesToInsert) :
        LET m == run[j].matchesToInsert[k]
        IN  /\ userRows[m.userId].skills = <<"ts", "sql", "ts">>
            /\ userRows[m.userId].skills_desired = <<"ts", "go">>
            /\ userRows[m.matchedUserId].skills = <<"ts", "sql">>
            /\ m.scoreSkillsAlignment = (3 * Scale) \div 4

\* a coordinate is present, 0 included
HasCoordinates(row) == row.latitude # NoNum /\ row.longitude # NoNum

\* the bonus of a distance in metres, in tenths
DistanceBand(metres) ==
    IF metres <= 10000 THEN 8
    ELSE IF metres <= 25000 THEN 6
    ELSE IF metres <= 50000 THEN 4
    ELSE IF metres <= 100000 THEN 2
    ELSE 0

\* C26: professionalFit precedence.  Of every match a run builds, the
\* professional fit is 0.5 for the same city, 1.0 with the same state as
\* well; otherwise 0.3 for the same state; otherwise, when both users have
\* coordinates, a latitude or longitude of 0 included, the band of their
\* distance, 0.8 / 0.6 / 0.4 / 0.2 / 0 for <= 10 / 25 / 50 / 100 / more km;
\* otherwise 0.
C26_ProfessionalFitPrecedence ==
    \A j \in Runs : \A k \in 1..Len(run[j].matchesToInsert) :
        LET m == run[j].matchesToInsert[k]
            subject == userRows[m.userId]
            candidate == userRows[m.matchedUserId]
            sameCity == subject.city # NULL /\ subject.city = candidate.city
            sameState == subject.state # NULL /\ subject.state = candidate.state
        IN  m.scoreProfessionalFit =
                IF sameCity THEN (IF sameState THEN Scale ELSE Scale \div 2)
                ELSE IF sameState THEN (3 * Scale) \div 10
                ELSE IF HasCoordinates(subject) /\ HasCoordinates(candidate)
                THEN (DistanceBand(calculateDistance(subject.latitude, subject.longitude,
                                                     candidate.latitude,
                                                     candidate.longitude)) * Scale) \div 10
                ELSE 0

\* C27: personalFit.  With r the share of the subject's skills (as a set,
\* its size taken as at least 1) that the candidate has, the personal fit of
\* every match a run builds is 0.7*(1-r) + 0.3*[professions differ] for a
\* COMPLEMENT subject, 0.7*r + 0.3*[professions equal] for a MIRROR subject
\* and 0.5 for any other subject, whatever the candidate's matchType.
C27_PersonalFit ==
    \A j \in Runs : \A k \in 1..Len(run[j].matchesToInsert) :
        LET m == run[j].matchesToInsert[k]
            subject == userRows[m.userId]
            candidate == userRows[m.matchedUserId]
            shared == Cardinality(SkillSet(m.userId) \cap SkillSet(m.matchedUserId))
            size == Max2(Cardinality(SkillSet(m.userId)), 1)
            equal == IF subject.profession = candidate.profession THEN 1 ELSE 0
        IN  m.scorePersonalFit * 10 * size =
                IF subject.match_type = "COMPLEMENT"
                THEN (7 * (size - shared) + 3 * (1 - equal) * size) * Scale
                ELSE IF subject.match_type = "MIRROR"
                THEN (7 * shared + 3 * equal * size) * Scale
                ELSE 5 * size * Scale

\* a run has built both directions of a pair whose users share one of the
\* subject's three skills and differ in profession: the COMPLEMENT subject
\* scores 0.7 * 2/3 + 0.3 against a MIRROR candidate, who in turn scores by
\* the MIRROR rule
C27_Witness ==
    \E j \in Runs : \E k, l \in 1..Len(run[j].matchesToInsert) :
        LET m == run[j].matchesToInsert[k]
            r == run[j].matchesToInsert[l]
        IN  /\ userRows[m.userId].match_type = "COMPLEMENT"
            /\ userRows[m.matchedUserId].match_type = "MIRROR"
            /\ userRows[m.userId].skills = <<"figma", "go", "sql">>
            /\ userRows[m.matchedUserId].skills = <<"ts", "sql">>
            /\ userRows[m.userId].profession # userRows[m.matchedUserId].profession
            /\ m.scorePersonalFit = (23 * Scale) \div 30
            /\ r.userId = m.matchedUserId
            /\ r.scorePersonalFit = (7 * Scale) \div 20

\* C28: single-user frame.  No step of a call calculateMatches(targetUserId)
\* changes a row whose user_id is not the target, a row in which the target
\* is the matched user among them, and every row such a step creates has
\* the target as user_id.
C28_SingleUserFrame ==
    [][\A j \in Runs :
          (run'[j] # run[j] /\ run'[j].targetUserId # NoTarget) =>
              /\ Len(matches') >= Len(matches)
              /\ \A i \in 1..Len(matches) :
                     matches[i].user_id # run'[j].targetUserId => matches'[i] = matches[i]
              /\ \A i \in (1..Len(matches')) \ (1..Len(matches)) :
                     matches'[i].user_id = run'[j].targetUserId]_vars

\* the row in which user 1 is the matched user was there, and accepted,
\* when a run for user 1 created the row of which user 1 is the subject
C28_Witness ==
    /\ Len(matches) = 2
    /\ matches[1].user_id = 2 /\ matches[1].matched_user_id = 1
    /\ matches[1].status = "ACCEPTED"
    /\ matches[2].user_id = 1 /\ matches[2].matched_user_id = 2
    /\ \E j \in Runs : /\ run[j].targetUserId = 1
                        /\ run[j].pc = "done"
                        /\ run[j].result >= 1
                        /\ run[j].replaced = "NONE"

\* C29: stable record identity.  No step changes the id or the pair of a
\* row that exists, an upsert that hits the row included; a row that is
\* created takes an id no row carries.  An identifier a caller holds keeps
\* referring to the pair it was read from.
C29_StableIdentity ==
    [][/\ Len(matches') >= Len(matches)
       /\ \A i \in 1..Len(matches) :
             /\ matches'[i].id = matches[i].id
             /\ matches'[i].user_id = matches[i].user_id
             /\ matches'[i].matched_user_id = matches[i].matched_user_id
       /\ \A i \in (1..Len(matches')) \ (1..Len(matches)) :
             ~HasId(matches, matches'[i].id)]_vars

\* a re-run has rewritten a row that had been accepted, while a caller who
\* looked the row up by its id has yet to send its update
C29_Witness ==
    \E j \in Runs, h \in Reqs, i \in 1..Len(matches) :
        /\ run[j].written >= 1
        /\ run[j].replaced = "ACCEPTED"
        /\ matches[i].status = "ACCEPTED"
        /\ matches[i].user_id = 1 /\ matches[i].matched_user_id = 2
        /\ req[h].pc = "checked"
        /\ req[h].matchId = matches[i].id
        /\ Len(matches) = 2

\* C30: accept / reject semantics.  The update of an accept (reject) request
\* sets the status of the row with the requested id to ACCEPTED (REJECTED),
\* whatever it was, and leaves the scores, the pair and every other column
\* but updated_at, and every other row, as they were; a request proceeds to
\* its update only for an id some row carries, and a request that ends in
\* not-found changes no row.
C30_AcceptReject ==
    [][\A h \in Reqs :
          /\ (req[h].pc = "checked" /\ req[h].kind \in {"accept", "reject"}
              /\ req'[h].pc = "done") =>
                /\ Len(matches') = Len(matches)
                /\ \E i \in 1..Len(matches) : matches[i].id = req[h].matchId
                /\ \A i \in 1..Len(matches) :
                      IF matches[i].id = req[h].matchId
                      THEN matches'[i] =
                             [matches[i] EXCEPT
                                !.status = IF req[h].kind = "accept"
                                           THEN "ACCEPTED" ELSE "REJECTED",
                                !.updated_at = matches'[i].updated_at]
                      ELSE matches'[i] = matches[i]
          /\ (req[h].pc = "idle" /\ req'[h].pc = "checked") =>
                HasId(matches, req'[h].matchId)
          /\ (req[h].pc = "idle" /\ req'[h].pc = "notfound") =>
                matches' = matches]_vars

\* a match that had been scheduled has been accepted by a request that has
\* returned, its scores in place
C30_Witness ==
    /\ \E i \in 1..Len(matches) :
          /\ matches[i].status = "ACCEPTED"
          /\ matches[i].scheduled_time # NoTime
          /\ matches[i].score_overall > 0
    /\ \E h \in Reqs : req[h].pc = "done"

====
